---- MODULE Spec2Model ----
(***************************************************************************)
(* Model of calculateMaterials / processRecipe (src/blacksmith2.js).       *)
(* The recursion of processRecipe is modelled by an explicit call stack;   *)
(* the two accumulator objects of each call live in a heap so that the     *)
(* objects returned by one call can be told apart from those of the next.  *)
(***************************************************************************)
EXTENDS Integers, Sequences, FiniteSets, TLC

VARIABLES
    recipes,    \* the recipe table passed by the caller (an object literal)
    heap,       \* every accumulator object allocated so far: id -> map
    cur,        \* ids of materialsNeeded / craftsNeeded of the call in progress
    target,     \* targetRecipeName of the call in progress (or of the last one)
    qty,        \* countToCraft of the call in progress (or of the last one)
    stack,      \* activation records of processRecipe, innermost last
    pc,         \* "idle": no call in progress; "running": inside calculateMaterials
    last,       \* how the last call ended: "none", "returned", "threw"
    results,    \* the objects returned so far, in call order
    demands,    \* history: every processRecipe(item, amount) made by the current call
    calls       \* number of calls of calculateMaterials made so far

vars == <<recipes, heap, cur, target, qty, stack, pc, last, results, demands, calls>>

----------------------------------------------------------------------------
(* Bounds of the model *)

MaxCalls == 2   \* calls of calculateMaterials in one behaviour
MaxDepth == 5   \* call-stack limit of the engine (frames of processRecipe)
MaxQty   == 2   \* countToCraft ranges over 0..MaxQty on the small tables

----------------------------------------------------------------------------
(* JavaScript values that can occur in the computation *)

Num(n)    == [k |-> "num", v |-> n]
NaN       == [k |-> "nan", v |-> 0]
Undefined == [k |-> "undef", v |-> 0]
\* a built-in function inherited from Object.prototype (Object, toString, ...)
Fn        == [k |-> "fn", v |-> 0]
\* the string that results from concatenating a function with a number
Str       == [k |-> "str", v |-> 0]

\* Property names every object literal inherits from Object.prototype with
\* a function as value (a finite sample of them).
ObjectPrototypeNames == {"constructor", "toString"}

EmptyObject == [x \in {} |-> Undefined]

\* obj[key]: own property, else the inherited one, else undefined
Get(obj, key) ==
    IF key \in DOMAIN obj THEN obj[key]
    ELSE IF key \in ObjectPrototypeNames THEN Fn
    ELSE Undefined

\* obj[key] = val creates or overwrites the own property
Put(obj, key, val) ==
    [x \in DOMAIN obj \cup {key} |-> IF x = key THEN val ELSE obj[x]]

\* (x || 0): undefined, NaN and 0 are falsy
OrZero(x) == IF x.k \in {"undef", "nan"} \/ x = Num(0) THEN Num(0) ELSE x

\* x + y: concatenation as soon as one operand is a function or a string
Plus(x, y) ==
    IF x.k \in {"fn", "str"} \/ y.k \in {"fn", "str"} THEN Str
    ELSE IF x.k = "num" /\ y.k = "num" THEN Num(x.v + y.v)
    ELSE NaN

\* x * y
Times(x, y) == IF x.k = "num" /\ y.k = "num" THEN Num(x.v * y.v) ELSE NaN

MathCeilDiv_Floor(a, o) ==
    IF a.k = "num" /\ o.k = "num" /\ o.v > 0 THEN Num(a.v \div o.v) ELSE NaN

MathCeilDiv_FloorPlusOne(a, o) ==
    IF a.k = "num" /\ o.k = "num" /\ o.v > 0 THEN Num((a.v \div o.v) + 1) ELSE NaN

MathCeilDiv_Round(a, o) ==
    IF a.k = "num" /\ o.k = "num" /\ o.v > 0
    THEN Num((2 * a.v + o.v) \div (2 * o.v)) ELSE NaN

\* Math.ceil(a / o). An undefined divisor gives NaN. Every recipe modelled
\* has output > 0; a / 0 (an infinity) is not represented.
MathCeilDiv(a, o) ==
    IF a.k = "num" /\ o.k = "num" /\ o.v > 0 THEN Num(-((-a.v) \div o.v)) ELSE NaN

----------------------------------------------------------------------------
(* Recipe tables. A recipe is the sequence of its properties, in the order *)
(* for...in enumerates them; "output" is one of the properties.            *)

ExampleRecipes ==
    [r \in {"ironBar", "nails", "copperBar", "transferBoxes"} |->
        CASE r = "ironBar"       -> << <<"ironOre", 25>>, <<"coal", 25>>, <<"output", 6>> >>
          [] r = "nails"         -> << <<"ironBar", 1>>, <<"coal", 1>>, <<"output", 6>> >>
          [] r = "copperBar"     -> << <<"copperOre", 5>>, <<"coal", 2>>, <<"output", 2>> >>
          [] r = "transferBoxes" -> << <<"copperBar", 1>>, <<"nails", 5>>,
                                       <<"softwood", 2>>, <<"output", 1>> >>]

\* ingot is reached by two paths (through plate and through rod)
DiamondRecipes ==
    [r \in {"gear", "plate", "rod", "ingot"} |->
        CASE r = "gear"  -> << <<"plate", 1>>, <<"rod", 2>>, <<"output", 1>> >>
          [] r = "plate" -> << <<"output", 1>>, <<"ingot", 1>>, <<"ore", 0>> >>
          [] r = "rod"   -> << <<"ingot", 1>>, <<"output", 2>> >>
          [] r = "ingot" -> << <<"ore", 2>>, <<"output", 3>> >>]

\* loopA and loopB need each other, selfie needs itself, pin needs neither
CyclicRecipes ==
    [r \in {"loopA", "loopB", "selfie", "pin"} |->
        CASE r = "loopA"  -> << <<"ore", 1>>, <<"loopB", 1>>, <<"output", 1>> >>
          [] r = "loopB"  -> << <<"loopA", 2>>, <<"output", 2>> >>
          [] r = "selfie" -> << <<"output", 2>>, <<"selfie", 0>> >>
          [] r = "pin"    -> << <<"ore", 1>>, <<"output", 2>> >>]

Tables == {ExampleRecipes, DiamondRecipes, CyclicRecipes}

\* Arguments the caller passes with each table
Targets(tbl) ==
    IF tbl = ExampleRecipes THEN {"ironBar", "nails", "transferBoxes"}
    ELSE DOMAIN tbl \cup {"ore", "constructor"}

Quantities(tbl) ==
    IF tbl = ExampleRecipes THEN {10, 25, 5} ELSE 0..MaxQty

----------------------------------------------------------------------------
(* processRecipe *)

\* const recipe = recipes[currentItemName]; if (!recipe): the lookup also
\* finds what the table inherits, and every object or function is truthy
RecipeFound(item) == item \in DOMAIN recipes \/ item \in ObjectPrototypeNames

\* the enumerable properties for...in visits
Props(item) == IF item \in DOMAIN recipes THEN recipes[item] ELSE << >>

\* recipe.output
Output(item) ==
    LET p == Props(item)
        at == {i \in 1..Len(p) : p[i][1] = "output"}
    IN  IF at = {} THEN Undefined ELSE Num(p[CHOOSE i \in at : TRUE][2])

Accumulate_Overwrite(obj, key, amount) == Put(obj, key, amount)

\* obj[key] = (obj[key] || 0) + amount
Accumulate(obj, key, amount) == Put(obj, key, Plus(OrZero(Get(obj, key)), amount))

TotalIngredientRequired_Fractional(frame, perCraft) ==
    MathCeilDiv(Times(frame.amount, Num(perCraft)), Output(frame.item))

\* ingredientAmountPerCraft * numCraftsForThisRecipe
TotalIngredientRequired(frame, perCraft) == Times(Num(perCraft), frame.numCrafts)

InvokeResult_ZeroGuard(h, acc, item, amount, rest) ==
    IF amount = Num(0) THEN [heap |-> h, stack |-> rest, threw |-> FALSE]
    ELSE IF Len(rest) >= MaxDepth
    THEN [heap |-> h, stack |-> << >>, threw |-> TRUE]
    ELSE IF ~RecipeFound(item)
    THEN [heap  |-> [h EXCEPT ![acc.materials] = Accumulate(@, item, amount)],
          stack |-> rest, threw |-> FALSE]
    ELSE LET n == MathCeilDiv(amount, Output(item))
         IN  [heap  |-> [h EXCEPT ![acc.crafts] = Accumulate(@, item, n)],
              stack |-> Append(rest, [item |-> item, amount |-> amount,
                                      numCrafts |-> n, idx |-> 1, issued |-> << >>]),
              threw |-> FALSE]

\* A call processRecipe(item, amount) made with the frames `rest` below it,
\* up to the start of its loop: the engine refuses a frame beyond its stack
\* limit (RangeError, which unwinds every frame); a raw material is added
\* to materialsNeeded and the call returns; a recipe found is counted in
\* craftsNeeded and its frame starts the loop over its properties.
InvokeResult(h, acc, item, amount, rest) ==
    IF Len(rest) >= MaxDepth
    THEN [heap |-> h, stack |-> << >>, threw |-> TRUE]
    ELSE IF ~RecipeFound(item)
    THEN [heap  |-> [h EXCEPT ![acc.materials] = Accumulate(@, item, amount)],
          stack |-> rest, threw |-> FALSE]
    ELSE LET n == MathCeilDiv(amount, Output(item))
         IN  [heap  |-> [h EXCEPT ![acc.crafts] = Accumulate(@, item, n)],
              stack |-> Append(rest, [item |-> item, amount |-> amount,
                                      numCrafts |-> n, idx |-> 1, issued |-> << >>]),
              threw |-> FALSE]

FreshAccumulators_Shared(h) ==
    IF Len(h) >= 2 THEN [heap |-> h, materials |-> 1, crafts |-> 2]
    ELSE [heap |-> h \o <<EmptyObject, EmptyObject>>,
          materials |-> Len(h) + 1, crafts |-> Len(h) + 2]

\* const materialsNeeded = {}; const craftsNeeded = {};
FreshAccumulators(h) ==
    [heap |-> h \o <<EmptyObject, EmptyObject>>,
     materials |-> Len(h) + 1, crafts |-> Len(h) + 2]

Top == stack[Len(stack)]
TopProps == Props(Top.item)

----------------------------------------------------------------------------
(* Actions *)

Init ==
    /\ recipes \in Tables
    /\ heap = << >>
    /\ cur = [materials |-> 0, crafts |-> 0]
    /\ target = ""
    /\ qty = 0
    /\ stack = << >>
    /\ pc = "idle"
    /\ last = "none"
    /\ results = << >>
    /\ demands = << >>
    /\ calls = 0

\* calculateMaterials(recipes, t, q) up to the loop of processRecipe(t, q)
Call(t, q) ==
    /\ pc = "idle"
    /\ calls < MaxCalls
    /\ LET acc == FreshAccumulators(heap)
           r   == InvokeResult(acc.heap, acc, t, Num(q), << >>)
       IN  /\ cur' = [materials |-> acc.materials, crafts |-> acc.crafts]
           /\ heap' = r.heap
           /\ stack' = r.stack
    /\ target' = t
    /\ qty' = q
    /\ pc' = "running"
    /\ demands' = << <<t, Num(q)>> >>
    /\ calls' = calls + 1
    /\ UNCHANGED <<recipes, last, results>>

LoopSkipOutput_Delete ==
    /\ pc = "running"
    /\ stack # << >>
    /\ Top.idx <= Len(TopProps)
    /\ TopProps[Top.idx][1] = "output"
    /\ recipes' = [recipes EXCEPT ![Top.item] =
                      SubSeq(@, 1, Top.idx - 1) \o SubSeq(@, Top.idx + 1, Len(@))]
    /\ UNCHANGED <<heap, cur, target, qty, stack, pc, last, results, demands, calls>>

\* if (ingredientName === 'output') continue;
LoopSkipOutput ==
    /\ pc = "running"
    /\ stack # << >>
    /\ Top.idx <= Len(TopProps)
    /\ TopProps[Top.idx][1] = "output"
    /\ stack' = [stack EXCEPT ![Len(stack)].idx = @ + 1]
    /\ UNCHANGED <<recipes, heap, cur, target, qty, pc, last, results, demands, calls>>

\* one iteration of the loop for an ingredient: the recursive call, up to
\* the start of the callee's own loop
LoopIngredient ==
    /\ pc = "running"
    /\ stack # << >>
    /\ Top.idx <= Len(TopProps)
    /\ TopProps[Top.idx][1] # "output"
    /\ LET name   == TopProps[Top.idx][1]
           amount == TotalIngredientRequired(Top, TopProps[Top.idx][2])
           rest   == [stack EXCEPT ![Len(stack)].idx = @ + 1,
                                   ![Len(stack)].issued = Append(@, <<name, amount>>)]
           r      == InvokeResult(heap, cur, name, amount, rest)
       IN  /\ heap' = r.heap
           /\ stack' = r.stack
           /\ demands' = Append(demands, <<name, amount>>)
           /\ IF r.threw
              THEN pc' = "idle" /\ last' = "threw"
              ELSE UNCHANGED <<pc, last>>
    /\ UNCHANGED <<recipes, cur, target, qty, results, calls>>

\* the loop of the innermost processRecipe is over: it returns
ProcessReturn ==
    /\ pc = "running"
    /\ stack # << >>
    /\ Top.idx > Len(TopProps)
    /\ stack' = SubSeq(stack, 1, Len(stack) - 1)
    /\ UNCHANGED <<recipes, heap, cur, target, qty, pc, last, results, demands, calls>>

\* return { materials: materialsNeeded, crafts: craftsNeeded };
ReturnResult ==
    /\ pc = "running"
    /\ stack = << >>
    /\ results' = Append(results, [target |-> target, qty |-> qty,
                                   materials |-> cur.materials, crafts |-> cur.crafts])
    /\ pc' = "idle"
    /\ last' = "returned"
    /\ UNCHANGED <<recipes, heap, cur, target, qty, stack, demands, calls>>

Step == LoopSkipOutput \/ LoopIngredient \/ ProcessReturn \/ ReturnResult

Next ==
    \/ \E t \in Targets(recipes), q \in Quantities(recipes) : Call(t, q)
    \/ LoopSkipOutput
    \/ LoopIngredient
    \/ ProcessReturn
    \/ ReturnResult

Spec == Init /\ [][Next]_vars

\* The code is synchronous: once called, it runs until it returns or throws.
FairSpec == Spec /\ WF_vars(Step)

----------------------------------------------------------------------------
(* Vocabulary of the properties *)

\* the maps of the i-th returned result
Mat(i) == heap[results[i].materials]
Cr(i)  == heap[results[i].crafts]

\* the maps of the call in progress (or of the last call)
CurMat == heap[cur.materials]
CurCr  == heap[cur.crafts]

Returned == pc = "idle" /\ last = "returned"

\* ceil(a / o) on integers, o > 0
CeilInt(a, o) == (a + o - 1) \div o

OutputInt(r) == Output(r).v

Ingredients(r) ==
    IF r \in DOMAIN recipes
    THEN {recipes[r][i][1] : i \in {j \in 1..Len(recipes[r]) : recipes[r][j][1] # "output"}}
    ELSE {}

RECURSIVE Closure(_, _)
Closure(S, n) ==
    IF n = 0 THEN S ELSE Closure(S \cup UNION {Ingredients(x) : x \in S}, n - 1)

\* the items of the ingredient graph reachable from t, t included
ReachableFrom(t) == Closure({t}, Cardinality(DOMAIN recipes))

OnCycle(r) == r \in Closure(Ingredients(r), Cardinality(DOMAIN recipes))

CycleReachable(t) == \E r \in ReachableFrom(t) : OnCycle(r)

Acyclic == \A r \in DOMAIN recipes : ~OnCycle(r)

\* the amounts of the calls processRecipe(r, a) made so far by the current call
DemandsOf(r) == SelectSeq(demands, LAMBDA d : d[1] = r)

RECURSIVE SumAmounts(_)
SumAmounts(ds) ==
    IF ds = << >> THEN 0 ELSE ds[1][2].v + SumAmounts(Tail(ds))

RECURSIVE SumBatches(_, _)
SumBatches(ds, o) ==
    IF ds = << >> THEN 0 ELSE CeilInt(ds[1][2].v, o) + SumBatches(Tail(ds), o)

IsPositive(x) == x.k = "num" /\ x.v > 0

FiniteNonNegative(x) == x.k = "num" /\ x.v >= 0

----------------------------------------------------------------------------
(* C1 *)

\* C1 (as claimed): a call with desiredQuantity 0 returns a materials map
\* with no keys and a crafts map with no keys.
C1_ZeroGivesEmptyMaps ==
    \A i \in DOMAIN results :
        results[i].qty = 0 => DOMAIN Mat(i) = {} /\ DOMAIN Cr(i) = {}

\* C1 (amended): a call with desiredQuantity 0 that returns reports no
\* positive quantity in either map, but the maps are not both empty: the
\* target is a key of crafts when the lookup finds it and of materials
\* otherwise.
C1_ZeroGivesNoPositiveEntry ==
    \A i \in DOMAIN results :
        results[i].qty = 0 =>
            /\ \A x \in DOMAIN Mat(i) : ~IsPositive(Mat(i)[x])
            /\ \A x \in DOMAIN Cr(i) : ~IsPositive(Cr(i)[x])
            /\ IF RecipeFound(results[i].target)
               THEN results[i].target \in DOMAIN Cr(i)
               ELSE results[i].target \in DOMAIN Mat(i)

C1_Witness ==
    \E i \in DOMAIN results :
        /\ results[i].qty = 0
        /\ results[i].target = "gear"
        /\ Cr(i)["gear"] = Num(0)
        /\ Cr(i)["ingot"] = Num(0)
        /\ Mat(i)["ore"] = Num(0)

----------------------------------------------------------------------------
(* C2 *)

\* C2: when the target is not a key of the recipe table, the call returns
\* materials = {target: q} and a crafts map with no keys.
C2_UnknownTargetIsRawMaterial ==
    \A i \in DOMAIN results :
        results[i].target \notin DOMAIN recipes =>
            /\ DOMAIN Mat(i) = {results[i].target}
            /\ Mat(i)[results[i].target] = Num(results[i].qty)
            /\ DOMAIN Cr(i) = {}

----------------------------------------------------------------------------
(* C3 *)

\* C3: when a call has returned, crafts[r] of every recipe r is the sum of
\* ceil(a / output(r)) over the individual calls processRecipe(r, a) made,
\* and r has no entry exactly when it was never demanded.
C3_CraftsIsSumOfCeilings ==
    Returned =>
        \A r \in DOMAIN recipes :
            IF DemandsOf(r) = << >> THEN r \notin DOMAIN CurCr
            ELSE /\ r \in DOMAIN CurCr
                 /\ CurCr[r] = Num(SumBatches(DemandsOf(r), OutputInt(r)))

\* ingot (output 3) demanded by two paths with 1 and 1: 2 batches, not 1
C3_Witness ==
    /\ Returned
    /\ recipes = DiamondRecipes
    /\ DemandsOf("ingot") = << <<"ingot", Num(1)>>, <<"ingot", Num(1)>> >>
    /\ CurCr["ingot"] = Num(2)
    /\ CeilInt(SumAmounts(DemandsOf("ingot")), OutputInt("ingot")) = 1
    /\ DemandsOf("gear") = << <<"gear", Num(1)>> >>
    /\ CurCr["gear"] = Num(1)

----------------------------------------------------------------------------
(* C4 *)

\* C4: on the example table the three example calls return exactly the
\* maps of the worked traces.
C4_ExampleResults ==
    \A i \in DOMAIN results :
        recipes = ExampleRecipes =>
            /\ (results[i].target = "ironBar" /\ results[i].qty = 10) =>
                  /\ Mat(i) = ("ironOre" :> Num(50)) @@ ("coal" :> Num(50))
                  /\ Cr(i) = ("ironBar" :> Num(2))
            /\ (results[i].target = "nails" /\ results[i].qty = 25) =>
                  /\ Mat(i) = ("ironOre" :> Num(25)) @@ ("coal" :> Num(30))
                  /\ Cr(i) = ("nails" :> Num(5)) @@ ("ironBar" :> Num(1))
            /\ (results[i].target = "transferBoxes" /\ results[i].qty = 5) =>
                  /\ Mat(i) = ("copperOre" :> Num(15)) @@ ("coal" :> Num(36))
                              @@ ("ironOre" :> Num(25)) @@ ("softwood" :> Num(10))
                  /\ Cr(i) = ("transferBoxes" :> Num(5)) @@ ("copperBar" :> Num(3))
                             @@ ("nails" :> Num(5)) @@ ("ironBar" :> Num(1))

C4_Witness ==
    /\ recipes = ExampleRecipes
    /\ Len(results) = 2
    /\ results[1].target = "transferBoxes" /\ results[1].qty = 5
    /\ results[2].target = "nails" /\ results[2].qty = 25
    /\ Cr(1)["copperBar"] = Num(3)

----------------------------------------------------------------------------
(* C5 *)

\* C5: on an acyclic table with positive outputs, every value of the maps
\* a call returns is a finite, non-negative number.
C5_ValuesFiniteNonNegative ==
    Acyclic =>
        \A i \in DOMAIN results :
            /\ \A x \in DOMAIN Mat(i) : FiniteNonNegative(Mat(i)[x])
            /\ \A x \in DOMAIN Cr(i) : FiniteNonNegative(Cr(i)[x])

\* C5, the termination half: on an acyclic table every call returns.
C5_AcyclicCallReturns ==
    (pc = "running" /\ Acyclic) ~> Returned

----------------------------------------------------------------------------
(* C6 *)

\* C6: during a resolution and in its result, crafts[r] * output(r) is at
\* least the sum of the amounts demanded of r so far.
C6_NeverUnderProduces ==
    (pc = "running" \/ Returned) =>
        \A r \in DOMAIN recipes :
            DemandsOf(r) # << >> =>
                /\ r \in DOMAIN CurCr
                /\ CurCr[r].k = "num"
                /\ CurCr[r].v * OutputInt(r) >= SumAmounts(DemandsOf(r))

C6_Witness ==
    /\ pc = "running"
    /\ recipes = ExampleRecipes
    /\ target = "transferBoxes"
    /\ Len(stack) = 3
    /\ SumAmounts(DemandsOf("ironBar")) = 5
    /\ CurCr["ironBar"].v * OutputInt("ironBar") = 6

----------------------------------------------------------------------------
(* C7 *)

\* C7: no step of calculateMaterials changes the recipe table.
C7_RecipesNeverMutated == [][recipes' = recipes]_vars

C7_Witness ==
    /\ Len(results) = 1
    /\ pc = "running"
    /\ Len(stack) >= 2
    /\ Top.idx > 1
    /\ recipes \in Tables

----------------------------------------------------------------------------
(* C8 *)

\* C8: every call allocates its own accumulators, no step changes a result
\* already returned, and two results for the same arguments hold the same
\* maps.
C8_CallsIndependent ==
    [][ /\ calls' # calls =>
            /\ cur'.materials \notin DOMAIN heap
            /\ cur'.crafts \notin DOMAIN heap
            /\ DOMAIN heap'[cur'.materials] \cup DOMAIN heap'[cur'.crafts] \subseteq {target'}
        /\ \A i \in DOMAIN results :
            /\ results'[i] = results[i]
            /\ heap'[results[i].materials] = heap[results[i].materials]
            /\ heap'[results[i].crafts] = heap[results[i].crafts]
        /\ \A i, j \in DOMAIN results' :
            (results'[i].target = results'[j].target /\ results'[i].qty = results'[j].qty) =>
                /\ heap'[results'[i].materials] = heap'[results'[j].materials]
                /\ heap'[results'[i].crafts] = heap'[results'[j].crafts]
      ]_vars

C8_Witness ==
    /\ Len(results) = 2
    /\ results[1].target = results[2].target
    /\ results[1].qty = results[2].qty
    /\ results[1].materials # results[2].materials
    /\ results[1].qty > 0
    /\ Mat(1) = Mat(2)
    /\ Cardinality(DOMAIN Cr(1)) >= 2

----------------------------------------------------------------------------
(* C9 *)

\* what a processRecipe of a recipe must have demanded once its loop has
\* gone past its first idx - 1 properties
ExpectedIssued(f) ==
    LET done == SubSeq(Props(f.item), 1, f.idx - 1)
        ing  == SelectSeq(done, LAMBDA e : e[1] # "output")
    IN  [i \in 1..Len(ing) |->
            <<ing[i][1], Num(ing[i][2] * CeilInt(f.amount.v, OutputInt(f.item)))>>]

\* C9: a processRecipe of a recipe demands each ingredient once, in turn,
\* with amount recipe[i] * ceil(a / output), and never demands "output",
\* which is a key of no map.
C9_IngredientsByBatchCount ==
    /\ \A n \in DOMAIN stack :
        stack[n].item \in DOMAIN recipes => stack[n].issued = ExpectedIssued(stack[n])
    /\ \A n \in DOMAIN demands : demands[n][1] # "output"
    /\ \A h \in DOMAIN heap : "output" \notin DOMAIN heap[h]

C9_Witness ==
    /\ pc = "running"
    /\ recipes = ExampleRecipes
    /\ Len(stack) = 2
    /\ Top.item = "ironBar"
    /\ Top.amount = Num(5)
    /\ Top.idx > Len(TopProps)
    /\ Top.issued = << <<"ironOre", Num(25)>>, <<"coal", Num(25)>> >>

----------------------------------------------------------------------------
(* C10 *)

\* C10: when a cycle is reachable from the target, the top-level
\* processRecipe never returns, whatever the quantity, and the stack grows
\* until the engine's limit is reached.
C10_CycleNeverReturns ==
    /\ [](pc = "running" /\ CycleReachable(target) => stack # << >>)
    /\ [](\A i \in DOMAIN results : ~CycleReachable(results[i].target))
    /\ (pc = "running" /\ CycleReachable(target)) ~> (Len(stack) = MaxDepth)

C10_Witness ==
    /\ pc = "idle"
    /\ last = "threw"
    /\ qty = 0
    /\ target = "loopB"
    /\ Len(demands) > MaxDepth

====
